---- MODULE Spec2Model ----
(***************************************************************************)
(* A model of creme/utils/math.py: sparse vectors and matrices held in     *)
(* Python dicts, and the functions dot, chain_dot, outer, matmul2d,        *)
(* dotvecmat, sherman_morrison, softmax, prod, minkowski_distance, norm.   *)
(*                                                                         *)
(* A dict is a sequence of <<key, value>> pairs with distinct keys, in     *)
(* insertion order (the order Python iterates it in).  Dicts live on a     *)
(* heap, a sequence of dicts; a reference is an index into it.  Numbers    *)
(* are exact rationals <<numerator, denominator>> in lowest terms, so the  *)
(* model speaks of the arithmetic the code asks for and leaves the         *)
(* rounding of floats out.                                                 *)
(***************************************************************************)
EXTENDS Integers, Sequences, FiniteSets, TLC

VARIABLES fn, args, p, heap, heap0, pc, ret

vars == <<fn, args, p, heap, heap0, pc, ret>>

(* ------------------------------ bounds ------------------------------- *)

\* input values are the integers -MaxVal .. MaxVal
MaxVal == 1

\* the exponents p of minkowski_distance are 1 .. MaxP
MaxP == 3

\* keys of the vectors, and row and column keys of the matrices
KEYS == {"x0", "x1"}

(* ----------------------------- numbers ------------------------------- *)

RECURSIVE GCD(_, _)
GCD(a, b) == IF b = 0 THEN a ELSE GCD(b, a % b)

IAbs(n) == IF n < 0 THEN -n ELSE n

\* the rational n/d in lowest terms, denominator positive; a denominator
\* of 0 marks a value that is not finite
Rat(n, d) ==
    LET g == IF n = 0 /\ d = 0 THEN 1 ELSE GCD(IAbs(n), IAbs(d))
        s == IF d < 0 THEN -1 ELSE 1
    IN  <<s * (n \div g), IAbs(d) \div g>>

Num(n) == <<n, 1>>
Zero == Num(0)
One == Num(1)

RAdd(a, b) == Rat(a[1] * b[2] + b[1] * a[2], a[2] * b[2])
RSub(a, b) == Rat(a[1] * b[2] - b[1] * a[2], a[2] * b[2])
RMul(a, b) == Rat(a[1] * b[1], a[2] * b[2])
RLess(a, b) == a[1] * b[2] < b[1] * a[2]
RAbs(a) == <<IAbs(a[1]), a[2]>>

RECURSIVE RPow(_, _)
RPow(a, n) == IF n = 0 THEN One ELSE RMul(a, RPow(a, n - 1))

\* what a call hands back: a number, a reference to a dict, or an exception
RetNone == [kind |-> "none", ref |-> 0, num |-> Zero, exc |-> "none"]
RetNum(x) == [kind |-> "num", ref |-> 0, num |-> x, exc |-> "none"]
RetRef(r) == [kind |-> "ref", ref |-> r, num |-> Zero, exc |-> "none"]
RetRaise(e) == [kind |-> "raise", ref |-> 0, num |-> Zero, exc |-> e]

\* a / b done wrong: a zero divisor yields a non-finite value (denominator
\* 0) and no exception
truediv_silent(a, b) ==
    IF b[1] = 0 THEN RetNum(<<a[1], 0>>)
    ELSE RetNum(Rat(a[1] * b[2], a[2] * b[1]))

\* Python's a / b on int and float operands: ZeroDivisionError when b is 0
truediv(a, b) ==
    IF b[1] = 0 THEN RetRaise("ZeroDivisionError")
    ELSE RetNum(Rat(a[1] * b[2], a[2] * b[1]))

\* math.exp on the integers, with base 2 standing for e: positive,
\* increasing, exp(0) = 1, exp(a + b) = exp(a) * exp(b)
exp(x) == IF x[1] >= 0 THEN RPow(Num(2), x[1]) ELSE Rat(1, RPow(Num(2), -x[1])[1])

\* sum(s): Python's sum of a sequence of numbers, left to right from 0
RECURSIVE sum(_)
sum(s) == IF s = <<>> THEN Zero ELSE RAdd(sum(SubSeq(s, 1, Len(s) - 1)), s[Len(s)])

(* ------------------------------- dicts ------------------------------- *)

HasKey(d, k) == \E i \in 1..Len(d) : d[i][1] = k

keys(d) == {d[i][1] : i \in 1..Len(d)}

\* d[k] for a key d holds
at(d, k) == d[CHOOSE i \in 1..Len(d) : d[i][1] = k][2]

\* the items of s as a list
list(s) == SubSeq(s, 1, Len(s))

\* d.get(k, dflt) done wrong: an absent key reads as 1
get_one(d, k, dflt) == IF HasKey(d, k) THEN at(d, k) ELSE One

\* d.get(k, dflt)
get(d, k, dflt) == IF HasKey(d, k) THEN at(d, k) ELSE dflt

\* d[k] = v: a key d holds keeps its place, a new key goes last
put(d, k, v) ==
    IF HasKey(d, k)
    THEN [d EXCEPT ![CHOOSE i \in 1..Len(d) : d[i][1] = k] = <<k, v>>]
    ELSE Append(d, <<k, v>>)

\* itertools.product(a.items(), b.items()): for each item of a, in order,
\* every item of b, in order
product(a, b) ==
    list([n \in 1..(Len(a) * Len(b)) |->
             <<a[((n - 1) \div Len(b)) + 1], b[((n - 1) % Len(b)) + 1]>>])

(* -------------------------------- heap ------------------------------- *)

\* C = {}: a fresh empty dict
NewDict(h) == [heap |-> Append(h, <<>>), ref |-> Len(h) + 1]

\* heap[r][k] = v
store(h, r, k, v) == [h EXCEPT ![r] = put(h[r], k, v)]

(* ---------------------------- the functions -------------------------- *)

\* functools.reduce(operator.mul, iterable, 1)
RECURSIVE prod(_)
prod(s) == IF s = <<>> THEN One ELSE RMul(prod(SubSeq(s, 1, Len(s) - 1)), s[Len(s)])

\* dot(x, y): the shorter dict is iterated, the other probed
dot(x, y) ==
    IF Len(x) < Len(y)
    THEN sum([i \in 1..Len(x) |-> RMul(x[i][2], get(y, x[i][1], Zero))])
    ELSE sum([i \in 1..Len(y) |-> RMul(get(x, y[i][1], Zero), y[i][2])])

\* min(xs, key=len) for a non-empty xs: the first dict of least length
min_len(xs) ==
    xs[CHOOSE i \in 1..Len(xs) :
          /\ \A j \in 1..Len(xs) : Len(xs[i]) <= Len(xs[j])
          /\ \A j \in 1..(i - 1) : Len(xs[j]) > Len(xs[i])]

\* chain_dot(*xs) with 0 for the sum over no dicts
chain_dot_total(xs) ==
    IF xs = <<>> THEN RetNum(Zero)
    ELSE LET ks == min_len(xs)
         IN  RetNum(sum([i \in 1..Len(ks) |->
                 prod([j \in 1..Len(xs) |-> get(xs[j], ks[i][1], Zero)])]))

\* chain_dot(*xs); min() of no dicts raises ValueError
chain_dot(xs) ==
    IF xs = <<>> THEN RetRaise("ValueError")
    ELSE LET ks == min_len(xs)
         IN  RetNum(sum([i \in 1..Len(ks) |->
                 prod([j \in 1..Len(xs) |-> get(xs[j], ks[i][1], Zero)])]))

\* the set of keys listed once each, in some order
RECURSIVE SetToSeq(_)
SetToSeq(S) ==
    IF S = {} THEN <<>>
    ELSE LET k == CHOOSE k \in S : TRUE IN <<k>> \o SetToSeq(S \ {k})

\* the keys done wrong: [*a.keys(), *b.keys()] iterated as a list, a key of
\* both dicts twice
list_keys(a, b) == [i \in 1..Len(a) |-> a[i][1]] \o [i \in 1..Len(b) |-> b[i][1]]

\* set([*a.keys(), *b.keys()]) as it is iterated
union_keys(a, b) == SetToSeq(keys(a) \cup keys(b))

\* minkowski_distance(a, b, p)
minkowski_distance(a, b, q) ==
    LET ks == union_keys(a, b)
    IN  sum([i \in 1..Len(ks) |->
            RPow(RAbs(RSub(get(a, ks[i], Zero), get(b, ks[i], Zero))), q)])

\* list(x.values())
values(x) == list([i \in 1..Len(x) |-> x[i][2]])

\* np.linalg.norm(list(x.values()), ord=order) for order 1 (the sum of the
\* absolute values) and order 0 (the number of non-zero values)
norm(x, order) ==
    LET vs == values(x)
    IN  IF order = 1 THEN sum([i \in 1..Len(vs) |-> RAbs(vs[i])])
        ELSE sum([i \in 1..Len(vs) |-> IF vs[i][1] = 0 THEN Zero ELSE One])

\* outer(u, v): a dict comprehension over the product of the items
outer(h, u, v) ==
    LET items == product(h[u], h[v])
        d == list([n \in 1..Len(items) |->
                     <<<<items[n][1][1], items[n][2][1]>>,
                       RMul(items[n][1][2], items[n][2][2])>>])
    IN  [heap |-> Append(h, d), ret |-> RetRef(Len(h) + 1)]

\* the loop of matmul2d done wrong: C[i, j] = x * y, nothing added up
RECURSIVE matmul2d_loop_set(_, _, _, _)
matmul2d_loop_set(h, c, items, n) ==
    IF n = 0 THEN h
    ELSE LET h1 == matmul2d_loop_set(h, c, items, n - 1)
             i == items[n][1][1][1]
             k1 == items[n][1][1][2]
             x == items[n][1][2]
             k2 == items[n][2][1][1]
             j == items[n][2][1][2]
             y == items[n][2][2]
         IN  IF k1 # k2 THEN h1
             ELSE store(h1, c, <<i, j>>, RMul(x, y))

\* the loop of matmul2d over the first n pairs of items, writing dict c
RECURSIVE matmul2d_loop(_, _, _, _)
matmul2d_loop(h, c, items, n) ==
    IF n = 0 THEN h
    ELSE LET h1 == matmul2d_loop(h, c, items, n - 1)
             i == items[n][1][1][1]
             k1 == items[n][1][1][2]
             x == items[n][1][2]
             k2 == items[n][2][1][1]
             j == items[n][2][1][2]
             y == items[n][2][2]
         IN  IF k1 # k2 THEN h1
             ELSE store(h1, c, <<i, j>>, RAdd(get(h1[c], <<i, j>>, Zero), RMul(x, y)))

\* matmul2d with C = A in place of C = {}: the products pile up in A
matmul2d_alias(h, a, b) ==
    [heap |-> matmul2d_loop(h, a, product(h[a], h[b]), Len(h[a]) * Len(h[b])),
     ret |-> RetRef(a)]

\* matmul2d(A, B)
matmul2d(h, a, b) ==
    LET c == NewDict(h)
        items == product(h[a], h[b])
    IN  [heap |-> matmul2d_loop(c.heap, c.ref, items, Len(items)),
         ret |-> RetRef(c.ref)]

\* the loop of dotvecmat over the first n pairs of items, writing dict c:
\* C[k] = C.get(j, 0.) + xi * ai reads the entry of the row key j
RECURSIVE dotvecmat_loop(_, _, _, _)
dotvecmat_loop(h, c, items, n) ==
    IF n = 0 THEN h
    ELSE LET h1 == dotvecmat_loop(h, c, items, n - 1)
             i == items[n][1][1]
             xi == items[n][1][2]
             j == items[n][2][1][1]
             k == items[n][2][1][2]
             ai == items[n][2][2]
         IN  IF i # j THEN h1
             ELSE store(h1, c, k, RAdd(get(h1[c], j, Zero), RMul(xi, ai)))

\* dotvecmat(x, A)
dotvecmat(h, x, a) ==
    LET c == NewDict(h)
        items == product(h[x], h[a])
    IN  [heap |-> dotvecmat_loop(c.heap, c.ref, items, Len(items)),
         ret |-> RetRef(c.ref)]

\* one pass of the loop of sherman_morrison done wrong: the old entry is
\* not read
sm_step_overwrite(h, ainv, k, q) == store(h, ainv, k, RSub(Zero, q))

\* one pass of the loop of sherman_morrison, q being v / den:
\* A_inv[k] = A_inv.get(k, 0) - q
sm_step(h, ainv, k, q) == store(h, ainv, k, RSub(get(h[ainv], k, Zero), q))

\* the loop of sherman_morrison over the first n items of the correction;
\* a division that raises ends it
RECURSIVE sm_loop(_, _, _, _, _)
sm_loop(h, ainv, corr, den, n) ==
    IF n = 0 THEN [heap |-> h, exc |-> "none"]
    ELSE LET s == sm_loop(h, ainv, corr, den, n - 1)
             q == truediv(corr[n][2], den)
         IN  IF s.exc # "none" THEN s
             ELSE IF q.kind = "raise" THEN [heap |-> s.heap, exc |-> q.exc]
             ELSE [heap |-> sm_step(s.heap, ainv, corr[n][1], q.num), exc |-> "none"]

\* den = 1 + dot(dotvecmat(u, A_inv), v), with the heap the call leaves
sm_den(h, ainv, u, v) ==
    LET t == dotvecmat(h, u, ainv)
    IN  [heap |-> t.heap, num |-> RAdd(One, dot(t.heap[t.ret.ref], t.heap[v]))]

\* matmul2d(matmul2d(A_inv, outer(u, v)), A_inv)
sm_correction(h, ainv, u, v) ==
    LET o == outer(h, u, v)
        m == matmul2d(o.heap, ainv, o.ret.ref)
    IN  matmul2d(m.heap, m.ret.ref, ainv)

\* sherman_morrison(A_inv, u, v).  The items of the correction are those of
\* a dict built before the loop, so the loop's own v (the name is bound
\* anew by the for statement) and its writes to A_inv reach neither den nor
\* the correction.
sherman_morrison(h, ainv, u, v) ==
    LET d == sm_den(h, ainv, u, v)
        c == sm_correction(d.heap, ainv, u, v)
        corr == c.heap[c.ret.ref]
        l == sm_loop(c.heap, ainv, corr, d.num, Len(corr))
    IN  [heap |-> l.heap,
         ret |-> IF l.exc # "none" THEN RetRaise(l.exc) ELSE RetRef(ainv)]

\* max(y_pred.values()) of a non-empty dict
RECURSIVE max(_)
max(vs) ==
    IF Len(vs) = 1 THEN vs[1]
    ELSE LET m == max(SubSeq(vs, 1, Len(vs) - 1))
         IN  IF RLess(m, vs[Len(vs)]) THEN vs[Len(vs)] ELSE m

\* the first loop of softmax done wrong: the maximum is taken anew from
\* the dict on every pass, after earlier passes have written to it
RECURSIVE softmax_exp_live(_, _, _, _)
softmax_exp_live(h, y, maximum, n) ==
    IF n = 0 THEN [heap |-> h, total |-> Zero]
    ELSE LET s == softmax_exp_live(h, y, maximum, n - 1)
             c == s.heap[y][n][1]
             pv == s.heap[y][n][2]
             e == exp(RSub(pv, max(values(s.heap[y]))))
         IN  [heap |-> store(s.heap, y, c, e), total |-> RAdd(s.total, e)]

\* the first loop of softmax over the first n items, read as the loop
\* reaches them: y_pred[c] = math.exp(p - maximum); total += y_pred[c]
RECURSIVE softmax_exp(_, _, _, _)
softmax_exp(h, y, maximum, n) ==
    IF n = 0 THEN [heap |-> h, total |-> Zero]
    ELSE LET s == softmax_exp(h, y, maximum, n - 1)
             c == s.heap[y][n][1]
             pv == s.heap[y][n][2]
             e == exp(RSub(pv, maximum))
         IN  [heap |-> store(s.heap, y, c, e), total |-> RAdd(s.total, e)]

\* the second loop of softmax over the first n keys: y_pred[c] /= total
RECURSIVE softmax_div(_, _, _, _)
softmax_div(h, y, total, n) ==
    IF n = 0 THEN [heap |-> h, exc |-> "none"]
    ELSE LET s == softmax_div(h, y, total, n - 1)
             c == s.heap[y][n][1]
             q == truediv(s.heap[y][n][2], total)
         IN  IF s.exc # "none" THEN s
             ELSE IF q.kind = "raise" THEN [heap |-> s.heap, exc |-> q.exc]
             ELSE [heap |-> store(s.heap, y, c, q.num), exc |-> "none"]

\* softmax(y_pred)
softmax(h, y) ==
    IF h[y] = <<>> THEN [heap |-> h, ret |-> RetRef(y)]
    ELSE LET maximum == max(values(h[y]))
             e == softmax_exp(h, y, maximum, Len(h[y]))
             d == softmax_div(e.heap, y, e.total, Len(h[y]))
         IN  [heap |-> d.heap,
              ret |-> IF d.exc # "none" THEN RetRaise(d.exc) ELSE RetRef(y)]

(* ------------------------------ the inputs --------------------------- *)

\* the sequences of n distinct members of K
InjSeqs(K, n) == {s \in [1..n -> K] : \A i, j \in 1..n : i # j => s[i] # s[j]}

\* the dicts of at most maxlen entries, keys from K and values from V, in
\* every insertion order
Dicts(K, V, maxlen) ==
    UNION {{[i \in 1..n |-> <<ks[i], vs[i]>>] : ks \in InjSeqs(K, n), vs \in [1..n -> V]} :
           n \in 0..maxlen}

Vals == {Num(n) : n \in (0 - MaxVal)..MaxVal}

\* sparse vectors
Vecs == Dicts(KEYS, Vals, Cardinality(KEYS))

\* sparse matrices: as many entries as there are keys, at most
Mats == Dicts(KEYS \X KEYS, Vals, Cardinality(KEYS))

\* the vectors u and v of a rank-one update: entries 1 and -1
UVecs == Dicts(KEYS, {Num(0 - 1), Num(1)}, Cardinality(KEYS))

\* the numbers of dicts chain_dot is called with
ARITIES == {0, 1, 2, 3}

\* the orders norm is called with
ORDERS == {0, 1}

(* ---------------------------- the state machine ---------------------- *)

\* a call of f about to be made: the dicts of h are the caller's, a lists
\* the references passed, q is the number passed (0 when none is)
Start(f, h, a, q) ==
    /\ fn = f
    /\ heap = h
    /\ heap0 = h
    /\ args = a
    /\ p = q
    /\ pc = "ready"
    /\ ret = RetNone

Init ==
    \/ \E x, y \in Vecs : Start("dot", <<x, y>>, <<1, 2>>, 0)
    \/ \E n \in ARITIES : \E xs \in [1..n -> Vecs] :
           Start("chain_dot", xs, [i \in 1..n |-> i], 0)
    \/ \E u, v \in Vecs : Start("outer", <<u, v>>, <<1, 2>>, 0)
    \/ \E a, b \in Mats : Start("matmul2d", <<a, b>>, <<1, 2>>, 0)
    \/ \E x \in Vecs, a \in Mats : Start("dotvecmat", <<x, a>>, <<1, 2>>, 0)
    \/ \E a, b \in Vecs, q \in 1..MaxP :
           Start("minkowski_distance", <<a, b>>, <<1, 2>>, q)
    \/ \E x \in Vecs, o \in ORDERS : Start("norm", <<x>>, <<1>>, o)
    \/ \E x \in Vecs : Start("prod", <<x>>, <<1>>, 0)
    \/ \E y \in Vecs : Start("softmax", <<y>>, <<1>>, 0)
    \/ \E a \in Mats, u, v \in UVecs :
           Start("sherman_morrison", <<a, u, v>>, <<1, 2, 3>>, 0)

\* the call returns r, leaving the heap h
Return(h, r) ==
    /\ heap' = h
    /\ ret' = r
    /\ pc' = "done"
    /\ UNCHANGED <<fn, args, p, heap0>>

Call_dot ==
    /\ pc = "ready" /\ fn = "dot"
    /\ Return(heap, RetNum(dot(heap[args[1]], heap[args[2]])))

Call_chain_dot ==
    /\ pc = "ready" /\ fn = "chain_dot"
    /\ Return(heap, chain_dot([i \in 1..Len(args) |-> heap[args[i]]]))

Call_outer ==
    /\ pc = "ready" /\ fn = "outer"
    /\ LET r == outer(heap, args[1], args[2]) IN Return(r.heap, r.ret)

Call_matmul2d ==
    /\ pc = "ready" /\ fn = "matmul2d"
    /\ LET r == matmul2d(heap, args[1], args[2]) IN Return(r.heap, r.ret)

Call_dotvecmat ==
    /\ pc = "ready" /\ fn = "dotvecmat"
    /\ LET r == dotvecmat(heap, args[1], args[2]) IN Return(r.heap, r.ret)

Call_minkowski_distance ==
    /\ pc = "ready" /\ fn = "minkowski_distance"
    /\ Return(heap, RetNum(minkowski_distance(heap[args[1]], heap[args[2]], p)))

Call_norm ==
    /\ pc = "ready" /\ fn = "norm"
    /\ Return(heap, RetNum(norm(heap[args[1]], p)))

\* prod over the values of a dict
Call_prod ==
    /\ pc = "ready" /\ fn = "prod"
    /\ Return(heap, RetNum(prod(values(heap[args[1]]))))

Call_softmax ==
    /\ pc = "ready" /\ fn = "softmax"
    /\ LET r == softmax(heap, args[1]) IN Return(r.heap, r.ret)

Call_sherman_morrison ==
    /\ pc = "ready" /\ fn = "sherman_morrison"
    /\ LET r == sherman_morrison(heap, args[1], args[2], args[3])
       IN  Return(r.heap, r.ret)

Next ==
    \/ Call_dot
    \/ Call_chain_dot
    \/ Call_outer
    \/ Call_matmul2d
    \/ Call_dotvecmat
    \/ Call_minkowski_distance
    \/ Call_norm
    \/ Call_prod
    \/ Call_softmax
    \/ Call_sherman_morrison

Spec == Init /\ [][Next]_vars

(* ------------------------------ the claims --------------------------- *)

Done(f) == pc = "done" /\ fn = f

\* the sum of F(k) over the members k of S
Sigma(S, F(_)) ==
    LET q == SetToSeq(S) IN sum(list([n \in 1..Len(q) |-> F(q[n])]))

\* the product of F(k) over the members k of S
Pi(S, F(_)) ==
    LET q == SetToSeq(S) IN prod(list([n \in 1..Len(q) |-> F(q[n])]))

\* the keys of a dict in the order it holds them
KeyOrder(d) == list([i \in 1..Len(d) |-> d[i][1]])

\* the entry of a sparse vector or matrix, absent entries read as 0
Entry(d, k) == IF HasKey(d, k) THEN at(d, k) ELSE Zero

\* C4: dotvecmat(x, A) returns a dict whose keys are exactly the column
\* keys k of the entries A[(i, k)] with i a key of x, and whose value at
\* each k is the sum of x[i] * A[(i, k)] over those entries.
C4_DotvecmatIsProduct ==
    Done("dotvecmat") =>
        LET x == heap0[args[1]]
            A == heap0[args[2]]
            C == heap[ret.ref]
            Term(ik) == RMul(at(x, ik[1]), at(A, ik))
        IN  /\ ret.kind = "ref"
            /\ keys(C) = {ik[2] : ik \in {e \in keys(A) : e[1] \in keys(x)}}
            /\ \A k \in keys(C) :
                   at(C, k) = Sigma({e \in keys(A) : e[1] \in keys(x) /\ e[2] = k}, Term)

\* C5: matmul2d(A, B) returns a new dict in which (i, j) is a key exactly
\* when some k has A[(i, k)] and B[(k, j)] both present, zero products
\* included, and the value at (i, j) is the sum of A[(i, k)] * B[(k, j)]
\* over those k.
C5_MatmulIsProduct ==
    Done("matmul2d") =>
        LET A == heap0[args[1]]
            B == heap0[args[2]]
            C == heap[ret.ref]
            Inner(i, j) == {k \in KEYS : <<i, k>> \in keys(A) /\ <<k, j>> \in keys(B)}
        IN  /\ ret.kind = "ref"
            /\ ret.ref \notin {args[1], args[2]}
            /\ keys(C) = {ij \in KEYS \X KEYS : Inner(ij[1], ij[2]) # {}}
            /\ \A ij \in keys(C) :
                   LET Term(k) == RMul(at(A, <<ij[1], k>>), at(B, <<k, ij[2]>>))
                   IN  at(C, ij) = Sigma(Inner(ij[1], ij[2]), Term)

\* C5 happens: an entry of the result sums two products, one of them zero
C5_Witness ==
    /\ Done("matmul2d")
    /\ \E ij \in keys(heap[ret.ref]) :
           /\ \A k \in KEYS : <<ij[1], k>> \in keys(heap0[1]) /\ <<k, ij[2]>> \in keys(heap0[2])
           /\ \E k \in KEYS : at(heap0[1], <<ij[1], k>>) = Zero
           /\ at(heap[ret.ref], ij) # Zero

\* the dicts a call of chain_dot was given, in the order given
ChainArgs == list([i \in 1..Len(args) |-> heap0[args[i]]])

\* the keys every one of the dicts xs holds
CommonKeys(xs) == {k \in KEYS : \A j \in 1..Len(xs) : k \in keys(xs[j])}

\* the sum, over the keys all of xs hold, of the product of their values
ChainSum(xs) ==
    LET Term(k) == LET F(j) == at(xs[j], k) IN Pi(1..Len(xs), F)
    IN  Sigma(CommonKeys(xs), Term)

C7_EmptyInputsReturn ==
    /\ (Done("prod") /\ heap0[args[1]] = <<>>) => ret = RetNum(One)
    /\ (Done("chain_dot") /\ args = <<>>) => ret.kind = "num"

\* C7 amended: prod of an empty sequence returns 1; chain_dot with no
\* arguments raises ValueError; chain_dot of one or more dicts, one of
\* them empty, returns 0.
C7_EmptyInputs ==
    /\ (Done("prod") /\ heap0[args[1]] = <<>>) => ret = RetNum(One)
    /\ (Done("chain_dot") /\ args = <<>>) => ret = RetRaise("ValueError")
    /\ (Done("chain_dot") /\ \E i \in 1..Len(args) : heap0[args[i]] = <<>>) =>
           ret = RetNum(Zero)

\* C7 happens: chain_dot has been called with no arguments
C7_Witness == Done("chain_dot") /\ args = <<>>

PURE == {"dot", "chain_dot", "outer", "matmul2d", "dotvecmat",
         "minkowski_distance", "norm", "prod"}

\* C8: softmax(y_pred) returns the dict it was given, its keys unchanged;
\* an empty dict is left as it is; in a non-empty one every entry ends as
\* exp(its value at entry - the maximum at entry) divided by the sum of
\* those exponentials over all entries, so the values sum to 1.
C8_SoftmaxNormalizes ==
    Done("softmax") =>
        LET y0 == heap0[args[1]]
            y == heap[args[1]]
            m == CHOOSE m \in {y0[i][2] : i \in 1..Len(y0)} :
                     \A i \in 1..Len(y0) : ~RLess(m, y0[i][2])
            E(i) == exp(RSub(y0[i][2], m))
            Value(i) == y[i][2]
        IN  /\ ret = RetRef(args[1])
            /\ Len(heap) = Len(heap0)
            /\ KeyOrder(y) = KeyOrder(y0)
            /\ y0 # <<>> =>
                   /\ \A i \in 1..Len(y) :
                          RMul(y[i][2], Sigma(1..Len(y0), E)) = E(i)
                   /\ Sigma(1..Len(y), Value) = One

\* C8 happens: softmax of a dict of two different values, the larger last
C8_Witness ==
    /\ Done("softmax")
    /\ Len(heap0[1]) = 2
    /\ RLess(heap0[1][1][2], heap0[1][2][2])
    /\ heap[1] # heap0[1]

\* C9: dot, chain_dot, outer, matmul2d, dotvecmat, minkowski_distance, norm
\* and prod leave every dict they are given as it was and return nothing
\* that is one of them; sherman_morrison leaves u and v as they were, and
\* softmax has no argument but the dict it works on.
C9_OnlyInPlaceMutate ==
    /\ (pc = "done" /\ fn \in PURE) =>
           /\ Len(heap) >= Len(heap0)
           /\ \A r \in 1..Len(heap0) : heap[r] = heap0[r]
           /\ ret.kind = "ref" => ret.ref \notin 1..Len(heap0)
    /\ Done("sherman_morrison") =>
           /\ heap[args[2]] = heap0[args[2]]
           /\ heap[args[3]] = heap0[args[3]]
    /\ Done("softmax") => Len(args) = 1

\* C9 happens: matmul2d has returned a dict with entries, built from two
\* dicts with entries
C9_Witness ==
    /\ Done("matmul2d")
    /\ heap0[1] # <<>> /\ heap0[2] # <<>>
    /\ ret.kind = "ref"
    /\ heap[ret.ref] # <<>>

\* den and the correction of a call of sherman_morrison, computed from the
\* dicts as they were at entry
Den0 == sm_den(heap0, args[1], args[2], args[3]).num

Corr0 ==
    LET c == sm_correction(heap0, args[1], args[2], args[3])
    IN  c.heap[c.ret.ref]

\* the dense matrices over KEYS with entries among the input values
DenseMats == [KEYS \X KEYS -> Vals]

\* the entry (i, j) of the product of the matrices F and G, given by their
\* entries
MatProd(F(_, _), G(_, _), i, j) ==
    LET Term(k) == RMul(F(i, k), G(k, j)) IN Sigma(KEYS, Term)

Identity(i, j) == IF i = j THEN One ELSE Zero

\* C1: when A_inv is the exact inverse of A and the update is not singular
\* (1 + v^T A_inv u is not 0, and neither is the den of the code),
\* sherman_morrison(A_inv, u, v) leaves A_inv the inverse of A + u v^T.
C1_ShermanMorrisonInverts ==
    Done("sherman_morrison") =>
        \A A \in DenseMats :
            LET Ainv0(i, j) == Entry(heap0[args[1]], <<i, j>>)
                R(i, j) == Entry(heap[args[1]], <<i, j>>)
                u(i) == Entry(heap0[args[2]], i)
                v(i) == Entry(heap0[args[3]], i)
                Am(i, j) == A[<<i, j>>]
                Updated(i, j) == RAdd(A[<<i, j>>], RMul(u(i), v(j)))
                vAu == LET T(ij) == RMul(v(ij[1]), RMul(Ainv0(ij[1], ij[2]), u(ij[2])))
                       IN  Sigma(KEYS \X KEYS, T)
            IN  (/\ \A i, j \in KEYS : MatProd(Am, Ainv0, i, j) = Identity(i, j)
                 /\ RAdd(One, vAu) # Zero
                 /\ Den0 # Zero)
                => /\ ret = RetRef(args[1])
                   /\ \A i, j \in KEYS : MatProd(Updated, R, i, j) = Identity(i, j)

\* C2 as stated: with den exactly 0 and a correction of at least one
\* entry, sherman_morrison raises nothing and returns A_inv, the entries of
\* the correction holding a non-finite value.
C2_ZeroDenSilent ==
    (Done("sherman_morrison") /\ Den0 = Zero /\ Corr0 # <<>>) =>
        /\ ret = RetRef(args[1])
        /\ \A k \in keys(Corr0) : Entry(heap[args[1]], k)[2] = 0

\* C2 amended: with den exactly 0 and a correction of at least one entry,
\* the first division raises ZeroDivisionError, and A_inv is as it was at
\* entry.
C2_ZeroDenRaises ==
    (Done("sherman_morrison") /\ Den0 = Zero /\ Corr0 # <<>>) =>
        /\ ret = RetRaise("ZeroDivisionError")
        /\ heap[args[1]] = heap0[args[1]]

\* C2 happens: sherman_morrison was called with a den of 0 and a
\* correction with entries
C2_Witness == Done("sherman_morrison") /\ Den0 = Zero /\ Corr0 # <<>>

\* C3: with den not 0, sherman_morrison returns the dict it was given;
\* with den and the correction taken from the dicts as they were at entry,
\* every key k of the correction ends with A_inv.get(k, 0) at entry minus
\* correction[k] / den, every other key of A_inv keeps its value, and the
\* keys A_inv had stay, in their places.
C3_ShermanMorrisonFrame ==
    Done("sherman_morrison") =>
        LET A0 == heap0[args[1]]
            A1 == heap[args[1]]
            den == Den0
            corr == Corr0
        IN  den # Zero =>
            /\ ret = RetRef(args[1])
            /\ keys(A1) = keys(A0) \cup keys(corr)
            /\ SubSeq(KeyOrder(A1), 1, Len(A0)) = KeyOrder(A0)
            /\ \A k \in keys(corr) :
                   RMul(RSub(Entry(A0, k), at(A1, k)), den) = at(corr, k)
            /\ \A k \in keys(A0) \ keys(corr) : at(A1, k) = at(A0, k)

\* C3 happens: the correction creates a key, changes one A_inv had, and
\* leaves another alone
C3_Witness ==
    /\ Done("sherman_morrison") /\ Den0 # Zero
    /\ keys(Corr0) \ keys(heap0[1]) # {}
    /\ keys(heap0[1]) \ keys(Corr0) # {}
    /\ \E k \in keys(Corr0) \cap keys(heap0[1]) : at(heap[1], k) # at(heap0[1], k)

====
